---- MODULE Spec2Model ----
(***************************************************************************)
(* Employee verification platform: the enrollment view (add_employee), the *)
(* verification view (verify_employee) and the ChromaDB adapter            *)
(* (ChromaService), over two stores: the Employee table and the vector     *)
(* collection.                                                             *)
(*                                                                         *)
(* Similarities and distances are exact rationals scaled by 200: a cosine  *)
(* distance d in [0,2] is the integer 100*d, a similarity s in [0,1] is    *)
(* the integer 200*s, so that similarity = 1 - d/2 is 200 - (100*d).       *)
(* Strings are sequences of one-character tokens ("NUL", "CR", "LF", "SP", *)
(* "TAB" stand for the control and blank characters).                      *)
(***************************************************************************)
EXTENDS Integers, Sequences, FiniteSets, TLC

\* ------------------------------------------------------------------ bounds
\* enrollment requests, each run once and any of them concurrently
NumEnroll == 2

\* the threads of the server that may be inside _get_collection at a time
NumThreads == 2
\* faces the probe images show: 0..MaxFaces
MaxFaces == 5

None == "None"

EnrollCalls == 1..NumEnroll

\* Employee.uuid defaults to uuid4(): a new identifier for every request
\* mutation of Uuid4: every row gets the same id
Uuid4_Fixed(c) == 1

Uuid4(c) == c

Ids == {Uuid4(c) : c \in EnrollCalls}

\* ------------------------------------------------------- python primitives
Whitespace == {"SP", "TAB", "LF", "CR"}

RemoveChar(s, ch) == SelectSeq(s, LAMBDA c : c # ch)

ReplaceChar(s, ch, by) == [i \in 1..Len(s) |-> IF s[i] = ch THEN by ELSE s[i]]

RECURSIVE LStrip(_)
LStrip(s) == IF s # <<>> /\ Head(s) \in Whitespace THEN LStrip(Tail(s)) ELSE s

RECURSIVE RStrip(_)
RStrip(s) ==
    IF s # <<>> /\ s[Len(s)] \in Whitespace THEN RStrip(SubSeq(s, 1, Len(s) - 1)) ELSE s

Strip(s) == RStrip(LStrip(s))

DigitChar(d) == <<"0", "1", "2", "3", "4", "5", "6", "7", "8", "9">>[d + 1]

RECURSIVE IntStr(_)
IntStr(n) == IF n < 10 THEN <<DigitChar(n)>> ELSE IntStr(n \div 10) \o <<DigitChar(n % 10)>>

\* str() of a float given in tenths: 90 is 9.0 and prints "9.0"
FloatStr(t) == IntStr(t \div 10) \o <<".", DigitChar(t % 10)>>

\* a python value is [t |-> type, v |-> payload]; the payload of an "obj"
\* (an exception, a path, a lazy string, ...) is what its __str__ returns
PyStr(x) ==
    CASE x.t = "str" -> x.v
      [] x.t = "int" -> IntStr(x.v)
      [] x.t = "float" -> FloatStr(x.v)
      [] x.t = "obj" -> x.v
      [] OTHER -> <<"N", "o", "n", "e">>

\* ------------------------------------------------------------ input domain
\* distance (x100) between the faces v and w, by the gap between them: the
\* collection's cosine distance, whose nearest-neighbour search is external
DistanceTable == <<0, 20, 40, 60, 70, 100>>

Abs(x) == IF x < 0 THEN -x ELSE x

Distance(v, w) ==
    IF Abs(v - w) < Len(DistanceTable) THEN DistanceTable[Abs(v - w) + 1] ELSE 200

Faces == 0..MaxFaces

\* an uploaded image, by what the detector makes of it
FaceImage(v) == [exists |-> TRUE, det |-> "faces", n |-> 1, vec |-> v]

NoFaceImage == [exists |-> TRUE, det |-> "ValueError", n |-> 0, vec |-> 0]

EmptyListImage == [exists |-> TRUE, det |-> "faces", n |-> 0, vec |-> 0]

MultiFaceImage == [exists |-> TRUE, det |-> "faces", n |-> 2, vec |-> 0]

BrokenImage == [exists |-> TRUE, det |-> "Exception", n |-> 0, vec |-> 0]

BadImages == {NoFaceImage, EmptyListImage, MultiFaceImage, BrokenImage}

EnrollImages == {FaceImage(0), NoFaceImage}

AllImages == {FaceImage(v) : v \in Faces} \cup BadImages

ProbeImages == {FaceImage(v) : v \in Faces} \cup {NoFaceImage}

NameAnn == <<"A", "n", "n">>

NameBo == <<"B", "LF", "o">>

\* cleaned_data of a valid EmployeeForm: the fields the enrollment reads
Forms ==
    { [full_name |-> NameAnn, employer_name |-> <<"C", "o">>, position |-> <<"D", "e", "v">>,
       reputation_score |-> 95, image |-> i] : i \in EnrollImages }
    \cup
    { [full_name |-> NameBo, employer_name |-> <<"X">>, position |-> <<"Q", "A">>,
       reputation_score |-> 100, image |-> FaceImage(1)] }

\* settings.SIMILARITY_THRESHOLD (x200): the default 0.65 and other settings
DefaultThreshold == 130

Thresholds == {100, DefaultThreshold, 170}

\* --------------------------------------------------------------- extractor
FaceError(msg) == [ok |-> FALSE, exc |-> "FaceRecognitionError", msg |-> msg, vec |-> <<>>]

\* the try body of extract_embedding: what it returns or raises
ExtractBody(img) ==
    CASE img.det = "ValueError" -> [kind |-> "ValueError", msg |-> <<"Face could not be detected">>]
      [] img.det = "Exception" -> [kind |-> "Exception", msg |-> <<"cannot identify image file">>]
      [] img.n = 0 ->
            [kind |-> "FaceRecognitionError", msg |-> <<"No face detected in the image">>]
      [] img.n > 1 ->
            [kind |-> "FaceRecognitionError",
             msg |-> <<"Multiple faces detected (">> \o IntStr(img.n)
                       \o <<"). Please provide an image with a single face.">>]
      [] OTHER -> [kind |-> "return", msg |-> <<>>]

ExtractEmbedding(img) ==
    IF ~img.exists THEN FaceError(<<"Image file not found: ", "path">>)
    ELSE LET b == ExtractBody(img) IN
         CASE b.kind = "return" ->
                [ok |-> TRUE, exc |-> None, msg |-> <<>>, vec |-> <<img.vec>>]
           [] b.kind = "ValueError" ->
                FaceError(<<"No face detected in the image. Please provide a clear face photo.">>)
           [] OTHER -> FaceError(<<"Failed to process image: ">> \o b.msg)

\* ---------------------------------------------------------- ChromaService
\* what the library does in one adapter call: the first of its calls that
\* raises, if any (the calls after it are not reached), and whether this
\* build of the library raises on an id that does not suit the call (one it
\* already holds for add, one it lacks for update) or passes over it
Envs == [fault : {"none", "client", "collection", "op"}, dupRaises : BOOLEAN]

\* _get_client: PersistentClient(...) once, the exception re-raised
GetClient(cl, env) ==
    IF cl = None
    THEN IF env.fault = "client" THEN [client |-> None, exc |-> TRUE]
         ELSE [client |-> "client", exc |-> FALSE]
    ELSE [client |-> cl, exc |-> FALSE]

\* _get_collection: get_collection, else create_collection, once; the
\* exception re-raised ("collection": both calls raise)
GetCollection(cl, col, env) ==
    IF col = None
    THEN LET c == GetClient(cl, env) IN
         IF c.exc THEN [client |-> c.client, collection |-> None, exc |-> TRUE]
         ELSE IF env.fault = "collection"
              THEN [client |-> c.client, collection |-> None, exc |-> TRUE]
              ELSE [client |-> c.client, collection |-> "collection", exc |-> FALSE]
    ELSE [client |-> cl, collection |-> col, exc |-> FALSE]

\* mutation of CleanValue: the .strip() left out
CleanValue_NoStrip(x) ==
    IF x.t = "str"
    THEN ReplaceChar(RemoveChar(RemoveChar(x.v, "NUL"), "CR"), "LF", "SP")
    ELSE PyStr(x)

\* mutation of CleanValue: the .replace('\x00', '') left out
CleanValue_KeepNul(x) ==
    IF x.t = "str"
    THEN Strip(ReplaceChar(RemoveChar(x.v, "CR"), "LF", "SP"))
    ELSE PyStr(x)

\* value.replace('\x00', '').replace('\r', '').replace('\n', ' ').strip() for
\* a string, str(value) for a number and for anything else
CleanValue(x) ==
    IF x.t = "str"
    THEN Strip(ReplaceChar(RemoveChar(RemoveChar(x.v, "NUL"), "CR"), "LF", "SP"))
    ELSE PyStr(x)

CleanMetadata(metadata) == [k \in DOMAIN metadata |-> CleanValue(metadata[k])]

\* mutation of CollectionAdd: collection.upsert in place of collection.add
CollectionAdd_Upsert(idx, id, embedding, metadata, env) ==
    IF env.fault = "op" THEN [index |-> idx, exc |-> TRUE]
    ELSE [index |-> [i \in DOMAIN idx \cup {id} |->
                       IF i = id THEN [embedding |-> embedding, metadata |-> metadata]
                       ELSE idx[i]],
          exc |-> FALSE]

\* collection.add: a new id is stored; an id already in the collection is
\* left as it is (the library drops the duplicate, or raises, by version)
CollectionAdd(idx, id, embedding, metadata, env) ==
    IF env.fault = "op" THEN [index |-> idx, exc |-> TRUE]
    ELSE IF id \in DOMAIN idx
         THEN [index |-> idx, exc |-> env.dupRaises]
         ELSE [index |-> [i \in DOMAIN idx \cup {id} |->
                            IF i = id THEN [embedding |-> embedding, metadata |-> metadata]
                            ELSE idx[i]],
               exc |-> FALSE]

\* the try body of add_employee_embedding
AddBody(cl, col, idx, id, embedding, metadata, env) ==
    LET g == GetCollection(cl, col, env) IN
    IF g.exc THEN [client |-> g.client, collection |-> g.collection, index |-> idx, exc |-> TRUE]
    ELSE LET a == CollectionAdd(idx, id, embedding, CleanMetadata(metadata), env) IN
         [client |-> g.client, collection |-> g.collection, index |-> a.index, exc |-> a.exc]

\* mutation of AddEmployeeEmbedding: no try/except around the body
AddEmployeeEmbedding_NoCatch(cl, col, idx, id, embedding, metadata, env) ==
    LET b == AddBody(cl, col, idx, id, embedding, metadata, env) IN
    [client |-> b.client, collection |-> b.collection, index |-> b.index,
     ret |-> ~b.exc, raised |-> b.exc]

\* add_employee_embedding: the body in try, `except Exception: return False`
AddEmployeeEmbedding(cl, col, idx, id, embedding, metadata, env) ==
    LET b == AddBody(cl, col, idx, id, embedding, metadata, env) IN
    [client |-> b.client, collection |-> b.collection, index |-> b.index,
     ret |-> ~b.exc, raised |-> FALSE]

\* ------------------------------------------------------------------- state
VARIABLES
    records,      \* the Employee table: uuid -> row
    index,        \* the collection: id -> [embedding, metadata]
    client,       \* ChromaService._client
    collection,   \* ChromaService._collection
    tempFiles,    \* default_storage: the names under temp/
    threshold,    \* settings.SIMILARITY_THRESHOLD
    epc,          \* add_employee: where each request is
    eform,        \* add_employee: the valid form of the request
    emp,          \* add_employee: the local employee, <<>> while unbound
    emb,          \* add_employee: the local embedding, <<>> while unbound
    eerr,         \* add_employee: str(e) of the exception being handled
    eout,         \* add_employee: what the caller gets
    elog,         \* add_employee: the collaborator calls of the request, in order
    vpc,          \* verify_employee: where the request is
    vimg,         \* verify_employee: the uploaded image
    vtemp,        \* verify_employee: temp_path, <<>> while unbound
    vemb,         \* verify_employee: query_embedding, <<>> while unbound
    vmatch,       \* verify_employee: match_result, <<>> for None
    verr,         \* verify_employee: the exception in flight, <<>> for none
    vout,         \* verify_employee: what the caller gets
    vlog,         \* verify_employee: the collaborator calls of the request, in order
    acall,        \* the last direct call of the adapter, with its result
    threads,      \* _get_collection: where each thread is in it, and its result
    inits         \* how often each handle has been assigned since reset_client

enrollVars == <<epc, eform, emp, emb, eerr, eout, elog>>

verifyVars == <<vpc, vimg, vtemp, vemb, vmatch, verr, vout, vlog>>

storeVars == <<records, index, client, collection>>

handleVars == <<threads, inits>>

\* what add_employee never touches
enrollFrame == <<tempFiles, threshold, verifyVars, acall, handleVars>>

\* what verify_employee never assigns
verifyFrame == <<threshold, enrollVars, acall, handleVars>>

vars == <<storeVars, tempFiles, threshold, enrollVars, verifyVars, acall, handleVars>>

NoForm == [full_name |-> <<>>, employer_name |-> <<>>, position |-> <<>>,
           reputation_score |-> 0, image |-> NoFaceImage]

NoOutcome == [kind |-> None, msg |-> <<>>]

NoResult ==
    [kind |-> None, msg |-> <<>>, employee |-> <<>>, similarity |-> <<>>, confidence |-> None]

Threads == 1..NumThreads

NoInits == [client |-> 0, collection |-> 0]

NoCall ==
    [op |-> None, id |-> 0, embedding |-> 0, metadata |-> <<>>,
     env |-> [fault |-> "none", dupRaises |-> FALSE], ret |-> <<>>, raised |-> FALSE]

Init ==
    /\ records = <<>>
    /\ index = <<>>
    /\ client = None
    /\ collection = None
    /\ tempFiles = {}
    /\ threshold \in Thresholds
    /\ epc = [c \in EnrollCalls |-> "idle"]
    /\ eform = [c \in EnrollCalls |-> NoForm]
    /\ emp = [c \in EnrollCalls |-> <<>>]
    /\ emb = [c \in EnrollCalls |-> <<>>]
    /\ eerr = [c \in EnrollCalls |-> <<>>]
    /\ eout = [c \in EnrollCalls |-> NoOutcome]
    /\ elog = [c \in EnrollCalls |-> <<>>]
    /\ vpc = "idle"
    /\ vimg = NoFaceImage
    /\ vtemp = <<>>
    /\ vemb = <<>>
    /\ vmatch = <<>>
    /\ verr = <<>>
    /\ vout = NoResult
    /\ vlog = <<>>
    /\ acall = NoCall
    /\ threads = [t \in Threads |-> [pc |-> "idle", ret |-> "none"]]
    /\ inits = NoInits

\* ------------------------------------------------------------ record store
\* Employee(**cleaned_data) with uuid = uuid4()
NewEmployee(id, f) ==
    [uuid |-> id, full_name |-> f.full_name, employer_name |-> f.employer_name,
     position |-> f.position, reputation_score |-> f.reputation_score]

Without(f, id) == [i \in DOMAIN f \ {id} |-> f[i]]

With(f, id, x) == [i \in DOMAIN f \cup {id} |-> IF i = id THEN x ELSE f[i]]

\* employee.delete(): the row is gone, or the database raises and it stays
EmployeeDelete(recs, id, ok) ==
    IF ok THEN [records |-> Without(recs, id), exc |-> FALSE]
    ELSE [records |-> recs, exc |-> TRUE]

\* ------------------------------------------------------------ add_employee
UnexpectedError(e) == [kind |-> "unexpected_error", msg |-> <<"An unexpected error occurred: ">> \o e]

StoreFailedMessage == <<"Failed to store facial recognition data. Please try again.">>

\* mutation of EnrollMetadata: employer taken from the position field
EnrollMetadata_WrongField(e) ==
    [full_name |-> [t |-> "str", v |-> e.full_name],
     employer |-> [t |-> "str", v |-> e.position],
     reputation_score |-> [t |-> "float", v |-> e.reputation_score]]

\* the metadata dict of the view
EnrollMetadata(e) ==
    [full_name |-> [t |-> "str", v |-> e.full_name],
     employer |-> [t |-> "str", v |-> e.employer_name],
     reputation_score |-> [t |-> "float", v |-> e.reputation_score]]

\* mutation of EnrollSave: a save that raises has written the row already
EnrollSave_RowLeftBehind(c, f, ok) ==
    /\ epc[c] = "idle"
    /\ eform' = [eform EXCEPT ![c] = f]
    /\ elog' = [elog EXCEPT ![c] = Append(@, IF ok THEN "create" ELSE "create_failed")]
    /\ records' = With(records, Uuid4(c), NewEmployee(Uuid4(c), f))
    /\ IF ok
       THEN /\ emp' = [emp EXCEPT ![c] = <<Uuid4(c)>>]
            /\ epc' = [epc EXCEPT ![c] = "extract"]
            /\ UNCHANGED <<eerr, eout>>
       ELSE /\ epc' = [epc EXCEPT ![c] = "done"]
            /\ eerr' = [eerr EXCEPT ![c] = <<"database error">>]
            /\ eout' = [eout EXCEPT ![c] = UnexpectedError(<<"database error">>)]
            /\ UNCHANGED emp
    /\ UNCHANGED <<index, client, collection, enrollFrame, emb>>

\* mutation of EnrollSave: form.save(commit=False), the row is not written
\* before the embedding is
EnrollSave_NoCommit(c, f, ok) ==
    /\ epc[c] = "idle"
    /\ eform' = [eform EXCEPT ![c] = f]
    /\ elog' = [elog EXCEPT ![c] = Append(@, IF ok THEN "create" ELSE "create_failed")]
    /\ IF ok
       THEN /\ emp' = [emp EXCEPT ![c] = <<Uuid4(c)>>]
            /\ epc' = [epc EXCEPT ![c] = "extract"]
            /\ UNCHANGED <<eerr, eout>>
       ELSE /\ epc' = [epc EXCEPT ![c] = "done"]
            /\ eerr' = [eerr EXCEPT ![c] = <<"database error">>]
            /\ eout' = [eout EXCEPT ![c] = UnexpectedError(<<"database error">>)]
            /\ UNCHANGED emp
    /\ UNCHANGED <<records, index, client, collection, enrollFrame, emb>>

\* a POST with a valid form: employee = form.save(); a failure goes to
\* `except Exception` with no employee in locals()
EnrollSave(c, f, ok) ==
    /\ epc[c] = "idle"
    /\ eform' = [eform EXCEPT ![c] = f]
    /\ elog' = [elog EXCEPT ![c] = Append(@, IF ok THEN "create" ELSE "create_failed")]
    /\ IF ok
       THEN /\ records' = With(records, Uuid4(c), NewEmployee(Uuid4(c), f))
            /\ emp' = [emp EXCEPT ![c] = <<Uuid4(c)>>]
            /\ epc' = [epc EXCEPT ![c] = "extract"]
            /\ UNCHANGED <<eerr, eout>>
       ELSE /\ epc' = [epc EXCEPT ![c] = "done"]
            /\ eerr' = [eerr EXCEPT ![c] = <<"database error">>]
            /\ eout' = [eout EXCEPT ![c] = UnexpectedError(<<"database error">>)]
            /\ UNCHANGED <<records, emp>>
    /\ UNCHANGED <<index, client, collection, enrollFrame, emb>>

\* embedding = FaceService.extract_embedding(image_path)
EnrollExtract(c) ==
    /\ epc[c] = "extract"
    /\ LET r == ExtractEmbedding(eform[c].image) IN
       /\ elog' = [elog EXCEPT ![c] = Append(@, IF r.ok THEN "extract" ELSE "extract_failed")]
       /\ IF r.ok
          THEN /\ emb' = [emb EXCEPT ![c] = r.vec]
               /\ epc' = [epc EXCEPT ![c] = "add"]
               /\ UNCHANGED eerr
          ELSE /\ eerr' = [eerr EXCEPT ![c] = r.msg]
               /\ epc' = [epc EXCEPT ![c] = "except_face"]
               /\ UNCHANGED emb
    /\ UNCHANGED <<storeVars, enrollFrame, eform, emp, eout>>

\* mutation of EnrollAdd: the return value of add_employee_embedding is not
\* looked at and the request redirects as a success
EnrollAdd_IgnoreResult(c, env) ==
    /\ epc[c] = "add"
    /\ LET id == emp[c][1]
           r == AddEmployeeEmbedding(client, collection, index, id, emb[c][1],
                                     EnrollMetadata(NewEmployee(id, eform[c])), env)
       IN /\ elog' = [elog EXCEPT ![c] = Append(@, IF r.ret THEN "add" ELSE "add_failed")]
          /\ client' = r.client
          /\ collection' = r.collection
          /\ index' = r.index
          /\ epc' = [epc EXCEPT ![c] = "done"]
          /\ eout' = [eout EXCEPT ![c] = [kind |-> "success", msg |-> <<"added">>]]
    /\ UNCHANGED <<records, enrollFrame, eform, emp, emb, eerr>>

\* success = ChromaService.add_employee_embedding(...); if success: redirect
EnrollAdd(c, env) ==
    /\ epc[c] = "add"
    /\ LET id == emp[c][1]
           r == AddEmployeeEmbedding(client, collection, index, id, emb[c][1],
                                     EnrollMetadata(NewEmployee(id, eform[c])), env)
       IN /\ elog' = [elog EXCEPT ![c] = Append(@, IF r.ret THEN "add" ELSE "add_failed")]
          /\ client' = r.client
          /\ collection' = r.collection
          /\ index' = r.index
          /\ IF r.raised
             THEN /\ epc' = [epc EXCEPT ![c] = "except_other"]
                  /\ eerr' = [eerr EXCEPT ![c] = <<"chroma error">>]
                  /\ UNCHANGED eout
             ELSE IF r.ret
                  THEN /\ epc' = [epc EXCEPT ![c] = "done"]
                       /\ eout' = [eout EXCEPT ![c] =
                                     [kind |-> "success",
                                      msg |-> <<"Employee \"">> \o eform[c].full_name
                                              \o <<"\" added successfully with facial recognition data.">>]]
                       /\ UNCHANGED eerr
                  ELSE /\ epc' = [epc EXCEPT ![c] = "else_delete"]
                       /\ UNCHANGED <<eout, eerr>>
    /\ UNCHANGED <<records, enrollFrame, eform, emp, emb>>

\* mutation of EnrollElseDelete: the else branch forgets employee.delete()
EnrollElseDelete_NoDelete(c, ok) ==
    /\ epc[c] = "else_delete"
    /\ elog' = [elog EXCEPT ![c] = Append(@, "delete")]
    /\ epc' = [epc EXCEPT ![c] = "done"]
    /\ eout' = [eout EXCEPT ![c] = [kind |-> "store_failed", msg |-> StoreFailedMessage]]
    /\ UNCHANGED <<storeVars, enrollFrame, eform, emp, emb, eerr>>

\* else: employee.delete(); messages.error('Failed to store ...')
EnrollElseDelete(c, ok) ==
    /\ epc[c] = "else_delete"
    /\ LET d == EmployeeDelete(records, emp[c][1], ok) IN
       /\ records' = d.records
       /\ elog' = [elog EXCEPT ![c] = Append(@, IF d.exc THEN "delete_failed" ELSE "delete")]
       /\ IF d.exc
          THEN /\ epc' = [epc EXCEPT ![c] = "except_other"]
               /\ eerr' = [eerr EXCEPT ![c] = <<"database error">>]
               /\ UNCHANGED eout
          ELSE /\ epc' = [epc EXCEPT ![c] = "done"]
               /\ eout' = [eout EXCEPT ![c] = [kind |-> "store_failed", msg |-> StoreFailedMessage]]
               /\ UNCHANGED eerr
    /\ UNCHANGED <<index, client, collection, enrollFrame, eform, emp, emb>>

\* mutation of EnrollExceptFace: the handler forgets employee.delete()
EnrollExceptFace_NoDelete(c, ok) ==
    /\ epc[c] = "except_face"
    /\ elog' = [elog EXCEPT ![c] = Append(@, "delete")]
    /\ epc' = [epc EXCEPT ![c] = "done"]
    /\ eout' = [eout EXCEPT ![c] = [kind |-> "face_error", msg |-> eerr[c]]]
    /\ UNCHANGED <<storeVars, enrollFrame, eform, emp, emb, eerr>>

\* mutation of EnrollExceptFace: the handler reports a message of its own
\* in place of str(e)
EnrollExceptFace_OwnMessage(c, ok) ==
    /\ epc[c] = "except_face"
    /\ LET d == EmployeeDelete(records, emp[c][1], ok) IN
       /\ records' = d.records
       /\ elog' = [elog EXCEPT ![c] = Append(@, IF d.exc THEN "delete_failed" ELSE "delete")]
       /\ epc' = [epc EXCEPT ![c] = "done"]
       /\ eout' = [eout EXCEPT ![c] =
                     IF d.exc THEN [kind |-> "raised", msg |-> <<"database error">>]
                     ELSE [kind |-> "face_error", msg |-> <<"Face recognition failed.">>]]
    /\ UNCHANGED <<index, client, collection, enrollFrame, eform, emp, emb, eerr>>

\* except FaceRecognitionError as e: employee.delete(); messages.error(str(e))
EnrollExceptFace(c, ok) ==
    /\ epc[c] = "except_face"
    /\ LET d == EmployeeDelete(records, emp[c][1], ok) IN
       /\ records' = d.records
       /\ elog' = [elog EXCEPT ![c] = Append(@, IF d.exc THEN "delete_failed" ELSE "delete")]
       /\ epc' = [epc EXCEPT ![c] = "done"]
       /\ eout' = [eout EXCEPT ![c] =
                     IF d.exc THEN [kind |-> "raised", msg |-> <<"database error">>]
                     ELSE [kind |-> "face_error", msg |-> eerr[c]]]
    /\ UNCHANGED <<index, client, collection, enrollFrame, eform, emp, emb, eerr>>

\* mutation of EnrollExceptOther: a delete that raises is swallowed and the
\* unexpected-error response goes out all the same
EnrollExceptOther_Swallow(c, ok) ==
    /\ epc[c] = "except_other"
    /\ LET d == EmployeeDelete(records, emp[c][1], ok) IN
       /\ records' = d.records
       /\ elog' = [elog EXCEPT ![c] = Append(@, IF d.exc THEN "delete_failed" ELSE "delete")]
       /\ epc' = [epc EXCEPT ![c] = "done"]
       /\ eout' = [eout EXCEPT ![c] = UnexpectedError(eerr[c])]
    /\ UNCHANGED <<index, client, collection, enrollFrame, eform, emp, emb, eerr>>

\* except Exception as e: employee.delete(); messages.error('An unexpected ...')
EnrollExceptOther(c, ok) ==
    /\ epc[c] = "except_other"
    /\ LET d == EmployeeDelete(records, emp[c][1], ok) IN
       /\ records' = d.records
       /\ elog' = [elog EXCEPT ![c] = Append(@, IF d.exc THEN "delete_failed" ELSE "delete")]
       /\ epc' = [epc EXCEPT ![c] = "done"]
       /\ eout' = [eout EXCEPT ![c] =
                     IF d.exc THEN [kind |-> "raised", msg |-> <<"database error">>]
                     ELSE UnexpectedError(eerr[c])]
    /\ UNCHANGED <<index, client, collection, enrollFrame, eform, emp, emb, eerr>>

\* the response is out: the locals of the request are gone
EnrollReturn(c) ==
    /\ epc[c] = "done"
    /\ epc' = [epc EXCEPT ![c] = "returned"]
    /\ eform' = [eform EXCEPT ![c] = NoForm]
    /\ emp' = [emp EXCEPT ![c] = <<>>]
    /\ emb' = [emb EXCEPT ![c] = <<>>]
    /\ eerr' = [eerr EXCEPT ![c] = <<>>]
    /\ eout' = [eout EXCEPT ![c] = NoOutcome]
    /\ elog' = [elog EXCEPT ![c] = <<>>]
    /\ UNCHANGED <<storeVars, enrollFrame>>

EnrollNext ==
    \/ \E c \in EnrollCalls, f \in Forms, ok \in BOOLEAN : EnrollSave(c, f, ok)
    \/ \E c \in EnrollCalls : EnrollExtract(c)
    \/ \E c \in EnrollCalls, env \in Envs : EnrollAdd(c, env)
    \/ \E c \in EnrollCalls, ok \in BOOLEAN : EnrollElseDelete(c, ok)
    \/ \E c \in EnrollCalls, ok \in BOOLEAN : EnrollExceptFace(c, ok)
    \/ \E c \in EnrollCalls, ok \in BOOLEAN : EnrollExceptOther(c, ok)
    \/ \E c \in EnrollCalls : EnrollReturn(c)

\* --------------------------------------------------------- search_embedding
\* mutation of Similarity: 1 - distance, the division by two left out
Similarity_NoHalving(distance) == 200 - (2 * distance)

\* similarity = 1 - (distance / 2), distance x100 and similarity x200
Similarity(distance) == 200 - distance

\* the ids collection.query may put first for the query q: the nearest ones
Nearest(idx, q) ==
    {i \in DOMAIN idx :
        \A j \in DOMAIN idx : Distance(q, idx[i].embedding) <= Distance(q, idx[j].embedding)}

\* what collection.query(n_results = 1) hands back: <<>> for no ids, else the
\* first hit; `top` is the id the collection puts first
Query(idx, q, top) ==
    IF DOMAIN idx = {} THEN <<>>
    ELSE <<[id |-> top, distance |-> Distance(q, idx[top].embedding),
            metadata |-> idx[top].metadata]>>

\* the result dict built from the first hit
SearchResult(hit) ==
    [id |-> hit.id, distance |-> hit.distance, similarity |-> Similarity(hit.distance),
     metadata |-> hit.metadata]

\* the try body of search_embedding, given what collection.query hands back
SearchBodyOn(cl, col, env, res) ==
    LET g == GetCollection(cl, col, env) IN
    IF g.exc \/ env.fault = "op"
    THEN [client |-> g.client, collection |-> g.collection, ret |-> <<>>, exc |-> TRUE]
    ELSE IF res = <<>>
         THEN [client |-> g.client, collection |-> g.collection, ret |-> <<>>, exc |-> FALSE]
         ELSE [client |-> g.client, collection |-> g.collection,
               ret |-> <<SearchResult(res[1])>>, exc |-> FALSE]

\* the try body of search_embedding over the collection's entries
SearchBody(cl, col, idx, q, env, top) == SearchBodyOn(cl, col, env, Query(idx, q, top))

\* mutation of SearchEmbeddingOn: no try/except around the body
SearchEmbeddingOn_NoCatch(cl, col, env, res) ==
    LET b == SearchBodyOn(cl, col, env, res) IN
    [client |-> b.client, collection |-> b.collection,
     ret |-> IF b.exc THEN <<>> ELSE b.ret, raised |-> b.exc, failed |-> b.exc]

\* search_embedding: the body in try, `except Exception: return None`
SearchEmbeddingOn(cl, col, env, res) ==
    LET b == SearchBodyOn(cl, col, env, res) IN
    [client |-> b.client, collection |-> b.collection,
     ret |-> IF b.exc THEN <<>> ELSE b.ret, raised |-> FALSE, failed |-> b.exc]

SearchEmbedding(cl, col, idx, q, env, top) ==
    SearchEmbeddingOn(cl, col, env, Query(idx, q, top))

\* --------------------------------------------------------- verify_employee
\* 'High' if similarity >= 0.8 else 'Medium'
HighConfidence == 160

Confidence(similarity) == IF similarity >= HighConfidence THEN "High" ELSE "Medium"

\* mutation of Accepted: similarity > threshold
Accepted_Strict(similarity, thr) == similarity > thr

\* mutation of Accepted: a margin under the threshold is accepted too
Accepted_Lenient(similarity, thr) == similarity >= thr - 30

\* if similarity >= threshold
Accepted(similarity, thr) == similarity >= thr

NoDataMessage == <<"No matching employee found in the database.">>

RecordMissingMessage == <<"Match found in facial database but employee record not found.">>

\* mutation of Decide: a candidate whose record is missing is rendered as the
\* below-threshold result
Decide_Downgrade(match, thr, recs) ==
    IF match = <<>>
    THEN [kind |-> "no_data", msg |-> NoDataMessage, employee |-> <<>>,
          similarity |-> <<>>, confidence |-> None]
    ELSE LET m == match[1] IN
         IF Accepted(m.similarity, thr) /\ m.id \in DOMAIN recs
         THEN [kind |-> "match", msg |-> <<>>, employee |-> <<recs[m.id]>>,
               similarity |-> <<m.similarity>>, confidence |-> Confidence(m.similarity)]
         ELSE [kind |-> "no_match", msg |-> <<"No confident match found.">>, employee |-> <<>>,
               similarity |-> <<m.similarity>>, confidence |-> None]

\* mutation of Decide: the confidence tier is taken relative to the threshold
Decide_RelativeTier(match, thr, recs) ==
    IF match = <<>>
    THEN [kind |-> "no_data", msg |-> NoDataMessage, employee |-> <<>>,
          similarity |-> <<>>, confidence |-> None]
    ELSE LET m == match[1] IN
         IF Accepted(m.similarity, thr)
         THEN IF m.id \in DOMAIN recs
              THEN [kind |-> "match", msg |-> <<>>, employee |-> <<recs[m.id]>>,
                    similarity |-> <<m.similarity>>,
                    confidence |-> IF m.similarity >= thr + 30 THEN "High" ELSE "Medium"]
              ELSE [kind |-> "record_missing", msg |-> RecordMissingMessage, employee |-> <<>>,
                    similarity |-> <<>>, confidence |-> None]
         ELSE [kind |-> "no_match", msg |-> <<"No confident match found.">>, employee |-> <<>>,
               similarity |-> <<m.similarity>>, confidence |-> None]

\* the branches after the search: what the request renders
Decide(match, thr, recs) ==
    IF match = <<>>
    THEN [kind |-> "no_data", msg |-> NoDataMessage, employee |-> <<>>,
          similarity |-> <<>>, confidence |-> None]
    ELSE LET m == match[1] IN
         IF Accepted(m.similarity, thr)
         THEN IF m.id \in DOMAIN recs
              THEN [kind |-> "match", msg |-> <<>>, employee |-> <<recs[m.id]>>,
                    similarity |-> <<m.similarity>>, confidence |-> Confidence(m.similarity)]
              ELSE [kind |-> "record_missing", msg |-> RecordMissingMessage, employee |-> <<>>,
                    similarity |-> <<>>, confidence |-> None]
         ELSE [kind |-> "no_match", msg |-> <<"No confident match found.">>, employee |-> <<>>,
               similarity |-> <<m.similarity>>, confidence |-> None]

ErrorResult(kind, msg) ==
    [kind |-> kind, msg |-> msg, employee |-> <<>>, similarity |-> <<>>, confidence |-> None]

\* mutation of VerifyHandled: one message for every exception
VerifyHandled_Generic(e) ==
    IF e.type = "FaceRecognitionError"
    THEN ErrorResult("face_error", <<"Verification failed.">>)
    ELSE ErrorResult("unexpected_error", <<"Verification failed.">>)

\* the outer handlers: str(e) of a FaceRecognitionError, a wrapped message
\* for any other exception
VerifyHandled(e) ==
    IF e.type = "FaceRecognitionError" THEN ErrorResult("face_error", e.msg)
    ELSE ErrorResult("unexpected_error", <<"An error occurred during verification: ">> \o e.msg)

\* default_storage.save gives the upload a name no file under temp/ has
AvailableName(files) ==
    CHOOSE n \in 1..(Cardinality(files) + 1) :
        n \notin files /\ \A m \in 1..(Cardinality(files) + 1) : m \notin files => n <= m

\* a POST with a valid form: temp_path = default_storage.save(...)
VerifyStart(img) ==
    /\ vpc = "idle"
    /\ vimg' = img
    /\ tempFiles' = tempFiles \cup {AvailableName(tempFiles)}
    /\ vtemp' = <<AvailableName(tempFiles)>>
    /\ vpc' = "extract"
    /\ vlog' = <<"temp_save">>
    /\ UNCHANGED <<storeVars, verifyFrame, vemb, vmatch, verr, vout>>

\* query_embedding = FaceService.extract_embedding(full_temp_path)
VerifyExtract ==
    /\ vpc = "extract"
    /\ LET r == ExtractEmbedding([vimg EXCEPT !.exists = vtemp[1] \in tempFiles]) IN
       /\ vlog' = Append(vlog, IF r.ok THEN "extract" ELSE "extract_failed")
       /\ IF r.ok
          THEN /\ vemb' = r.vec
               /\ vpc' = "search"
               /\ UNCHANGED verr
          ELSE /\ verr' = <<[type |-> "FaceRecognitionError", msg |-> r.msg]>>
               /\ vpc' = "finally"
               /\ UNCHANGED vemb
    /\ UNCHANGED <<storeVars, tempFiles, verifyFrame, vimg, vtemp, vmatch, vout>>

\* mutation of VerifySearch: a search that failed is tried a second time
VerifySearch_RetryOnce(env, top) ==
    /\ vpc = "search"
    /\ DOMAIN index # {} => top \in Nearest(index, vemb[1])
    /\ LET r == SearchEmbedding(client, collection, index, vemb[1], env, top) IN
       /\ client' = r.client
       /\ collection' = r.collection
       /\ vlog' = Append(vlog, IF r.failed THEN "search_failed" ELSE "search")
       /\ IF r.failed /\ ~(\E i \in 1..Len(vlog) : vlog[i] = "search_failed")
          THEN UNCHANGED <<vpc, vmatch, verr>>
          ELSE /\ vmatch' = r.ret
               /\ vpc' = "cleanup"
               /\ UNCHANGED verr
    /\ UNCHANGED <<records, index, tempFiles, verifyFrame, vimg, vtemp, vemb, vout>>

\* match_result = ChromaService.search_embedding(embedding_list)
VerifySearch(env, top) ==
    /\ vpc = "search"
    /\ DOMAIN index # {} => top \in Nearest(index, vemb[1])
    /\ LET r == SearchEmbedding(client, collection, index, vemb[1], env, top) IN
       /\ client' = r.client
       /\ collection' = r.collection
       /\ vlog' = Append(vlog, IF r.failed THEN "search_failed" ELSE "search")
       /\ IF r.raised
          THEN /\ verr' = <<[type |-> "Exception", msg |-> <<"chroma error">>]>>
               /\ vpc' = "finally"
               /\ UNCHANGED vmatch
          ELSE /\ vmatch' = r.ret
               /\ vpc' = "cleanup"
               /\ UNCHANGED verr
    /\ UNCHANGED <<records, index, tempFiles, verifyFrame, vimg, vtemp, vemb, vout>>

\* default_storage.delete(temp_path), before the branches
VerifyCleanup ==
    /\ vpc = "cleanup"
    /\ tempFiles' = tempFiles \ {vtemp[1]}
    /\ vlog' = Append(vlog, "temp_delete")
    /\ vpc' = "decide"
    /\ UNCHANGED <<storeVars, verifyFrame, vimg, vtemp, vemb, vmatch, verr, vout>>

\* mutation of VerifyDecide: a candidate whose record is missing has its
\* entry deleted from the collection
VerifyDecide_DropOrphan ==
    /\ vpc = "decide"
    /\ LET r == Decide(vmatch, threshold, records) IN
       /\ vout' = r
       /\ vlog' = IF r.kind \in {"match", "record_missing"}
                  THEN Append(vlog, IF r.kind = "match" THEN "get" ELSE "get_missing")
                  ELSE vlog
       /\ index' = IF r.kind = "record_missing"
                   THEN [i \in DOMAIN index \ {vmatch[1].id} |-> index[i]]
                   ELSE index
    /\ vpc' = "done"
    /\ UNCHANGED <<records, client, collection, tempFiles, verifyFrame, vimg, vtemp, vemb,
                   vmatch, verr>>

\* if match_result: ... Employee.objects.get(uuid=match_result['id']) ...;
\* the finally block then finds the temp file gone (exists() is false)
VerifyDecide ==
    /\ vpc = "decide"
    /\ LET r == Decide(vmatch, threshold, records) IN
       /\ vout' = r
       /\ vlog' = IF r.kind \in {"match", "record_missing"}
                  THEN Append(vlog, IF r.kind = "match" THEN "get" ELSE "get_missing")
                  ELSE vlog
    /\ vpc' = "done"
    /\ UNCHANGED <<storeVars, tempFiles, verifyFrame, vimg, vtemp, vemb, vmatch, verr>>

\* mutation of VerifyFinally: no finally block
VerifyFinally_NoDelete ==
    /\ vpc = "finally"
    /\ vout' = VerifyHandled(verr[1])
    /\ vpc' = "done"
    /\ UNCHANGED <<storeVars, tempFiles, verifyFrame, vimg, vtemp, vemb, vmatch, verr, vlog>>

\* an exception left the inner try: finally: if default_storage.exists(
\* temp_path): default_storage.delete(temp_path); then the outer handlers
VerifyFinally ==
    /\ vpc = "finally"
    /\ IF vtemp[1] \in tempFiles
       THEN /\ tempFiles' = tempFiles \ {vtemp[1]}
            /\ vlog' = Append(vlog, "temp_delete")
       ELSE UNCHANGED <<tempFiles, vlog>>
    /\ vout' = VerifyHandled(verr[1])
    /\ vpc' = "done"
    /\ UNCHANGED <<storeVars, verifyFrame, vimg, vtemp, vemb, vmatch, verr>>

\* the response is out; the worker takes the next verification
VerifyReturn ==
    /\ vpc = "done"
    /\ vpc' = "idle"
    /\ vimg' = NoFaceImage
    /\ vtemp' = <<>>
    /\ vemb' = <<>>
    /\ vmatch' = <<>>
    /\ verr' = <<>>
    /\ vout' = NoResult
    /\ vlog' = <<>>
    /\ UNCHANGED <<storeVars, tempFiles, verifyFrame>>

VerifyNext ==
    \/ \E img \in ProbeImages : VerifyStart(img)
    \/ VerifyExtract
    \/ \E env \in Envs, top \in Ids : VerifySearch(env, top)
    \/ VerifyCleanup
    \/ VerifyDecide
    \/ VerifyFinally
    \/ VerifyReturn

\* ------------------------------------------------------------------- admin
\* the admin site's delete of an Employee row: the collection is not told
AdminDelete(id) ==
    /\ id \in DOMAIN records
    /\ records' = Without(records, id)
    /\ UNCHANGED <<index, client, collection, tempFiles, threshold, enrollVars, verifyVars, acall, handleVars>>

\* ------------------------------------------------- direct adapter calls
MetaDirty == [full_name |-> [t |-> "str", v |-> <<"T", "e", "NUL", "s", "t", "CR", "LF">>]]

MetaMixed ==
    [full_name |-> [t |-> "str", v |-> <<"SP", "A", "LF", "B", "TAB">>],
     employer |-> [t |-> "int", v |-> 17],
     reputation_score |-> [t |-> "float", v |-> 85],
     notes |-> [t |-> "none", v |-> 0]]

AdapterMetadata == {MetaDirty, MetaMixed}

AdapterEmbeddings == {0, 1}

\* ChromaService.add_employee_embedding(employee_uuid, embedding, metadata)
AdapterAdd(id, embedding, metadata, env) ==
    LET r == AddEmployeeEmbedding(client, collection, index, id, embedding, metadata, env) IN
    /\ index' = r.index
    /\ client' = r.client
    /\ collection' = r.collection
    /\ acall' = [op |-> "add", id |-> id, embedding |-> embedding, metadata |-> metadata,
                 env |-> env, ret |-> <<r.ret>>, raised |-> r.raised]
    /\ UNCHANGED <<records, tempFiles, threshold, enrollVars, verifyVars, handleVars>>

\* collection.delete(ids=[doc_id]): an id the collection lacks is no error
CollectionDelete(idx, id, env) ==
    IF env.fault = "op" THEN [index |-> idx, exc |-> TRUE]
    ELSE [index |-> [i \in DOMAIN idx \ {id} |-> idx[i]], exc |-> FALSE]

DeleteBody(cl, col, idx, id, env) ==
    LET g == GetCollection(cl, col, env) IN
    IF g.exc THEN [client |-> g.client, collection |-> g.collection, index |-> idx, exc |-> TRUE]
    ELSE LET d == CollectionDelete(idx, id, env) IN
         [client |-> g.client, collection |-> g.collection, index |-> d.index, exc |-> d.exc]

\* mutation of DeleteEmployeeEmbedding: no try/except around the body
DeleteEmployeeEmbedding_NoCatch(cl, col, idx, id, env) ==
    LET b == DeleteBody(cl, col, idx, id, env) IN
    [client |-> b.client, collection |-> b.collection, index |-> b.index,
     ret |-> ~b.exc, raised |-> b.exc]

\* delete_employee_embedding: the body in try, `except Exception: return False`
DeleteEmployeeEmbedding(cl, col, idx, id, env) ==
    LET b == DeleteBody(cl, col, idx, id, env) IN
    [client |-> b.client, collection |-> b.collection, index |-> b.index,
     ret |-> ~b.exc, raised |-> FALSE]

\* ChromaService.delete_employee_embedding(employee_uuid)
AdapterDelete(id, env) ==
    LET r == DeleteEmployeeEmbedding(client, collection, index, id, env) IN
    /\ index' = r.index
    /\ client' = r.client
    /\ collection' = r.collection
    /\ acall' = [op |-> "delete", id |-> id, embedding |-> 0, metadata |-> <<>>,
                 env |-> env, ret |-> <<r.ret>>, raised |-> r.raised]
    /\ UNCHANGED <<records, tempFiles, threshold, enrollVars, verifyVars, handleVars>>

\* collection.update: the entry of an id the collection holds is replaced; an
\* id it lacks is passed over (the library warns, or raises, by version)
CollectionUpdate(idx, id, embedding, metadata, env) ==
    IF env.fault = "op" THEN [index |-> idx, exc |-> TRUE]
    ELSE IF id \in DOMAIN idx
         THEN [index |-> [idx EXCEPT ![id] = [embedding |-> embedding, metadata |-> metadata]],
               exc |-> FALSE]
         ELSE [index |-> idx, exc |-> env.dupRaises]

\* the try body of update_employee_embedding
UpdateBody(cl, col, idx, id, embedding, metadata, env) ==
    LET g == GetCollection(cl, col, env) IN
    IF g.exc THEN [client |-> g.client, collection |-> g.collection, index |-> idx, exc |-> TRUE]
    ELSE LET u == CollectionUpdate(idx, id, embedding, CleanMetadata(metadata), env) IN
         [client |-> g.client, collection |-> g.collection, index |-> u.index, exc |-> u.exc]

\* update_employee_embedding: the body in try, `except Exception: return False`
UpdateEmployeeEmbedding(cl, col, idx, id, embedding, metadata, env) ==
    LET b == UpdateBody(cl, col, idx, id, embedding, metadata, env) IN
    [client |-> b.client, collection |-> b.collection, index |-> b.index,
     ret |-> ~b.exc, raised |-> FALSE]

\* ChromaService.update_employee_embedding(employee_uuid, embedding, metadata)
AdapterUpdate(id, embedding, metadata, env) ==
    LET r == UpdateEmployeeEmbedding(client, collection, index, id, embedding, metadata, env) IN
    /\ index' = r.index
    /\ client' = r.client
    /\ collection' = r.collection
    /\ acall' = [op |-> "update", id |-> id, embedding |-> embedding, metadata |-> metadata,
                 env |-> env, ret |-> <<r.ret>>, raised |-> r.raised]
    /\ UNCHANGED <<records, tempFiles, threshold, enrollVars, verifyVars, handleVars>>

\* the try body of get_collection_stats: count = collection.count()
StatsBody(cl, col, idx, env) ==
    LET g == GetCollection(cl, col, env) IN
    IF g.exc \/ env.fault = "op"
    THEN [client |-> g.client, collection |-> g.collection, count |-> 0, exc |-> TRUE]
    ELSE [client |-> g.client, collection |-> g.collection,
          count |-> Cardinality(DOMAIN idx), exc |-> FALSE]

\* mutation of GetCollectionStats: the count of the collection is reported
\* as zero
GetCollectionStats_ZeroCount(cl, col, idx, env) ==
    LET b == StatsBody(cl, col, idx, env) IN
    [client |-> b.client, collection |-> b.collection, raised |-> FALSE,
     ret |-> IF b.exc
             THEN [collection_name |-> "employee_faces", total_embeddings |-> 0,
                   status |-> "error", error |-> <<"chroma error">>]
             ELSE [collection_name |-> "employee_faces", total_embeddings |-> 0,
                   status |-> "healthy", error |-> <<>>]]

\* get_collection_stats: the healthy dict, or in `except Exception` the error
\* dict with total_embeddings 0 and str(e)
GetCollectionStats(cl, col, idx, env) ==
    LET b == StatsBody(cl, col, idx, env) IN
    [client |-> b.client, collection |-> b.collection, raised |-> FALSE,
     ret |-> IF b.exc
             THEN [collection_name |-> "employee_faces", total_embeddings |-> 0,
                   status |-> "error", error |-> <<"chroma error">>]
             ELSE [collection_name |-> "employee_faces", total_embeddings |-> b.count,
                   status |-> "healthy", error |-> <<>>]]

\* ChromaService.get_collection_stats()
AdapterStats(env) ==
    LET r == GetCollectionStats(client, collection, index, env) IN
    /\ client' = r.client
    /\ collection' = r.collection
    /\ acall' = [op |-> "stats", id |-> 0, embedding |-> 0, metadata |-> <<>>,
                 env |-> env, ret |-> <<r.ret>>, raised |-> r.raised]
    /\ UNCHANGED <<records, index, tempFiles, threshold, enrollVars, verifyVars, handleVars>>

\* a value that is neither a string nor a number: str(ValueError('a\nb'))
MetaObject == [notes |-> [t |-> "obj", v |-> <<"a", "LF", "b">>]]

WriteMetadata == {MetaDirty, MetaObject}

\* the writing operations of the adapter, called directly
WriteNext ==
    \/ \E id \in Ids, m \in WriteMetadata, env \in Envs : AdapterAdd(id, 0, m, env)
    \/ \E id \in Ids, m \in WriteMetadata, env \in Envs : AdapterUpdate(id, 1, m, env)
    \/ \E id \in Ids, env \in Envs : AdapterDelete(id, env)
    \/ \E env \in Envs : AdapterStats(env)

AdapterNext ==
    \/ \E id \in Ids, e \in AdapterEmbeddings, m \in AdapterMetadata, env \in Envs :
            AdapterAdd(id, e, m, env)
    \/ \E id \in Ids, env \in Envs : AdapterDelete(id, env)

\* the largest cosine distance (x100): 2, opposite vectors
MaxDistance == 200

\* the distances a stubbed collection.query hands back: 0, 0.1, ... 2.0
QueryDistances == {10 * k : k \in 0..(MaxDistance \div 10)}

QueryResults ==
    {<<>>} \cup
    {<<[id |-> i, distance |-> d, metadata |-> CleanMetadata(MetaDirty)]>> :
        i \in Ids, d \in QueryDistances}

\* ChromaService.search_embedding(query_embedding) over a stubbed collection
\* whose query hands back res
AdapterSearch(res, env) ==
    LET r == SearchEmbeddingOn(client, collection, env, res) IN
    /\ client' = r.client
    /\ collection' = r.collection
    /\ acall' = [op |-> "search", id |-> 0, embedding |-> 0, metadata |-> <<>>,
                 env |-> env, ret |-> r.ret, raised |-> r.raised]
    /\ UNCHANGED <<records, index, tempFiles, threshold, enrollVars, verifyVars, handleVars>>

SearchNext == \E res \in QueryResults, env \in Envs : AdapterSearch(res, env)

\* ---------------------------------------------------------- specifications
\* the adapter called directly, with any identifier and metadata
InitAdapter == Init /\ threshold = DefaultThreshold

SpecAdapter == InitAdapter /\ [][AdapterNext]_vars

\* search_embedding called directly over a stubbed collection
SpecSearch == InitAdapter /\ [][SearchNext]_vars

\* what an image file is, with what the detector may make of it: a file that
\* cannot be decoded makes DeepFace.represent raise, a ValueError or another
\* exception by version; a file with no face makes it raise ValueError
\* (enforce_detection) or hand back an empty list
SceneImages(what) ==
    CASE what = "one" -> {FaceImage(v) : v \in Faces}
      [] what = "none" -> {NoFaceImage, EmptyListImage}
      [] what = "many" ->
            {[exists |-> TRUE, det |-> "faces", n |-> k, vec |-> v] : k \in 2..MaxFaces, v \in Faces}
      [] what = "unreadable" -> {BrokenImage, NoFaceImage}
      [] OTHER -> {}

PresentScenes ==
    {[what |-> w, img |-> i] :
        w \in {"one", "none", "many", "unreadable"}, i \in AllImages \cup SceneImages("many")}

Scenes ==
    {sc \in PresentScenes : sc.img \in SceneImages(sc.what)}
    \cup {[what |-> "missing", img |-> [i EXCEPT !.exists = FALSE]] : i \in AllImages}

\* FaceService.extract_embedding(image_path), called directly
ExtractCall(what, img) ==
    /\ acall' = [op |-> "extract", what |-> what, img |-> img, ret |-> ExtractEmbedding(img)]
    /\ UNCHANGED <<storeVars, tempFiles, threshold, enrollVars, verifyVars, handleVars>>

ExtractNext == \E sc \in Scenes : ExtractCall(sc.what, sc.img)

SpecExtract == Init /\ [][ExtractNext]_vars

\* add, update and delete called directly, with any metadata
SpecWrites == InitAdapter /\ [][WriteNext]_vars

\* enrollment and verification requests, their steps interleaved
\* ------------------------------------- the handles, one thread step at a time
\* what the steps of _get_collection and reset_client leave alone
handleFrame == <<records, index, tempFiles, threshold, enrollVars, verifyVars, acall>>

\* an adapter operation of thread t calls cls._get_collection()
GetCollectionCall(t) ==
    /\ threads[t].pc = "idle"
    /\ threads' = [threads EXCEPT ![t] = [pc |-> "collection_check", ret |-> "none"]]
    /\ UNCHANGED <<client, collection, inits, handleFrame>>

\* if cls._collection is None
GetCollectionCheck(t) ==
    /\ threads[t].pc = "collection_check"
    /\ threads' = [threads EXCEPT ![t].pc =
                      IF collection = None THEN "client_check" ELSE "return"]
    /\ UNCHANGED <<client, collection, inits, handleFrame>>

\* client = cls._get_client(): if cls._client is None
GetClientCheck(t) ==
    /\ threads[t].pc = "client_check"
    /\ threads' = [threads EXCEPT ![t].pc =
                      IF client = None THEN "client_new" ELSE "collection_get"]
    /\ UNCHANGED <<client, collection, inits, handleFrame>>

\* cls._client = chromadb.PersistentClient(...); an exception is re-raised
\* and leaves _get_collection
GetClientNew(t, ok) ==
    /\ threads[t].pc = "client_new"
    /\ IF ok
       THEN /\ client' = "client"
            /\ inits' = [inits EXCEPT !.client = @ + 1]
            /\ threads' = [threads EXCEPT ![t].pc = "collection_get"]
       ELSE /\ threads' = [threads EXCEPT ![t] = [pc |-> "idle", ret |-> "raised"]]
            /\ UNCHANGED <<client, inits>>
    /\ UNCHANGED <<collection, handleFrame>>

\* cls._collection = client.get_collection(...), or create_collection(...)
\* when that raises; an exception of the latter is re-raised
GetCollectionAssign(t, ok) ==
    /\ threads[t].pc = "collection_get"
    /\ IF ok
       THEN /\ collection' = "collection"
            /\ inits' = [inits EXCEPT !.collection = @ + 1]
            /\ threads' = [threads EXCEPT ![t].pc = "return"]
       ELSE /\ threads' = [threads EXCEPT ![t] = [pc |-> "idle", ret |-> "raised"]]
            /\ UNCHANGED <<collection, inits>>
    /\ UNCHANGED <<client, handleFrame>>

\* return cls._collection
GetCollectionReturn(t) ==
    /\ threads[t].pc = "return"
    /\ threads' = [threads EXCEPT ![t] = [pc |-> "idle", ret |-> collection]]
    /\ UNCHANGED <<client, collection, inits, handleFrame>>

\* reset_client: both handles back to None
ResetClient ==
    /\ client' = None
    /\ collection' = None
    /\ inits' = NoInits
    /\ UNCHANGED <<threads, handleFrame>>

HandleNext ==
    \/ \E t \in Threads : GetCollectionCall(t)
    \/ \E t \in Threads : GetCollectionCheck(t)
    \/ \E t \in Threads : GetClientCheck(t)
    \/ \E t \in Threads, ok \in BOOLEAN : GetClientNew(t, ok)
    \/ \E t \in Threads, ok \in BOOLEAN : GetCollectionAssign(t, ok)
    \/ \E t \in Threads : GetCollectionReturn(t)
    \/ ResetClient

\* the threads of one process in the adapter's handle set-up
SpecHandles == InitAdapter /\ [][HandleNext]_vars

Next == EnrollNext \/ VerifyNext

Spec == Init /\ [][Next]_vars

\* the enrollment requests alone, their steps interleaved
SpecEnroll == Init /\ [][EnrollNext]_vars

EnrollQuiet == \A c \in EnrollCalls : epc[c] \in {"idle", "returned"}

VerifyQuiet == vpc = "idle"

\* one worker: a request runs to its end before the next one starts; between
\* requests the admin may delete a row
SerialNext ==
    \/ \E c \in EnrollCalls, f \in Forms, ok \in BOOLEAN :
            EnrollQuiet /\ VerifyQuiet /\ EnrollSave(c, f, ok)
    \/ \E c \in EnrollCalls : EnrollExtract(c)
    \/ \E c \in EnrollCalls, env \in Envs : EnrollAdd(c, env)
    \/ \E c \in EnrollCalls, ok \in BOOLEAN : EnrollElseDelete(c, ok)
    \/ \E c \in EnrollCalls, ok \in BOOLEAN : EnrollExceptFace(c, ok)
    \/ \E c \in EnrollCalls, ok \in BOOLEAN : EnrollExceptOther(c, ok)
    \/ \E c \in EnrollCalls : EnrollReturn(c)
    \/ \E img \in ProbeImages : EnrollQuiet /\ VerifyStart(img)
    \/ VerifyExtract
    \/ \E env \in Envs, top \in Ids : VerifySearch(env, top)
    \/ VerifyCleanup
    \/ VerifyDecide
    \/ VerifyFinally
    \/ VerifyReturn
    \/ \E id \in Ids : EnrollQuiet /\ VerifyQuiet /\ AdminDelete(id)

SpecSerial == Init /\ [][SerialNext]_vars

\* ------------------------------------------------------ enrollment claims
Done(c) == epc[c] = "done"

InLog(c, x) == \E i \in 1..Len(elog[c]) : elog[c][i] = x

LastLog(c) == elog[c][Len(elog[c])]

HasRecord(c) == Uuid4(c) \in DOMAIN records

HasEmbedding(c) == Uuid4(c) \in DOMAIN index

ExtractorMessages == {ExtractEmbedding(i).msg : i \in {j \in AllImages : ~ExtractEmbedding(j).ok}}

C6_CreationFailureTouchesNothing ==
    \A c \in EnrollCalls :
        InLog(c, "create_failed") =>
            /\ Done(c)
            /\ elog[c] = <<"create_failed">>
            /\ eout[c].kind = "unexpected_error"
            /\ emp[c] = <<>> /\ emb[c] = <<>>
            /\ ~HasRecord(c) /\ ~HasEmbedding(c)

C6_Witness ==
    \E c \in EnrollCalls :
        /\ Done(c) /\ elog[c] = <<"create_failed">> /\ eout[c].kind = "unexpected_error"
        /\ \E d \in EnrollCalls : d # c /\ HasRecord(d) /\ HasEmbedding(d)

\* C7: when creation, extraction and the index write succeed the call reports
\* success, the record is in the table, and the index holds under the
\* record's identifier the embedding of the image with the metadata
\* full_name, employer and reputation_score of the record, the strings
\* cleaned and the score in its string form
C7_SuccessStoresRecordAndEmbedding ==
    \A c \in EnrollCalls :
        (Done(c) /\ elog[c] = <<"create", "extract", "add">>) =>
            /\ eout[c].kind = "success"
            /\ HasRecord(c) /\ HasEmbedding(c)
            /\ records[Uuid4(c)].uuid = Uuid4(c)
            /\ index[Uuid4(c)].embedding = eform[c].image.vec
            /\ index[Uuid4(c)].metadata =
                 [full_name |-> CleanValue([t |-> "str", v |-> records[Uuid4(c)].full_name]),
                  employer |-> CleanValue([t |-> "str", v |-> records[Uuid4(c)].employer_name]),
                  reputation_score |-> FloatStr(records[Uuid4(c)].reputation_score)]

C7_Witness ==
    \E c \in EnrollCalls :
        /\ Done(c) /\ eout[c].kind = "success"
        /\ index[Uuid4(c)].metadata =
             [full_name |-> <<"B", "SP", "o">>, employer |-> <<"X">>,
              reputation_score |-> <<"1", "0", ".", "0">>]

\* --------------------------------------------------------- adapter claims
\* C8 as stated: after a successful add_employee_embedding the collection
\* holds, under the identifier, exactly the given vector and the sanitized
\* metadata, the identifier having been absent or present
C8_AddUpserts ==
    (acall.op = "add" /\ acall.ret = <<TRUE>>) =>
        /\ acall.id \in DOMAIN index
        /\ index[acall.id] =
             [embedding |-> acall.embedding, metadata |-> CleanMetadata(acall.metadata)]

\* C8 amended: add_employee_embedding inserts the given vector and the
\* sanitized metadata when the identifier is absent and the call returns
\* True; when the identifier is already in the collection the entry it has
\* and every other entry stay as they are, whatever the call returns; a call
\* that returns False changes no entry
C8_AddInsertsNeverOverwrites ==
    [][acall'.op = "add" =>
         /\ acall'.id \in DOMAIN index => index' = index
         /\ (acall'.id \notin DOMAIN index /\ acall'.ret = <<TRUE>>) =>
                index' = With(index, acall'.id,
                              [embedding |-> acall'.embedding,
                               metadata |-> CleanMetadata(acall'.metadata)])
         /\ acall'.ret = <<FALSE>> => index' = index]_vars

C8_Witness ==
    /\ acall.op = "add" /\ acall.ret = <<TRUE>>
    /\ acall.id \in DOMAIN index
    /\ index[acall.id] # [embedding |-> acall.embedding, metadata |-> CleanMetadata(acall.metadata)]

\* C9: add_employee_embedding never raises; it returns False when the client
\* cannot be initialised, when the collection cannot be got or created, and
\* when collection.add raises, and True in every other case, the ones where
\* collection.add ended without an exception
C9_AddNeverRaises ==
    [][acall'.op = "add" =>
         LET e == acall'.env
             initFails == \/ client = None /\ collection = None /\ e.fault = "client"
                          \/ collection = None /\ e.fault = "collection"
             writeFails == \/ e.fault = "op"
                           \/ acall'.id \in DOMAIN index /\ e.dupRaises
         IN /\ ~acall'.raised
            /\ acall'.ret = <<~(initFails \/ writeFails)>>
            /\ initFails => collection' = None]_vars

C9_Witness ==
    /\ acall.op = "add" /\ acall.ret = <<FALSE>> /\ ~acall.raised
    /\ acall.env.fault = "client" /\ client = None /\ collection = None

\* r is v with every NUL and every CR removed, every LF turned into one
\* space, and the whitespace at both ends cut off
SanitizedFrom(v, r) ==
    LET kept == SelectSeq(v, LAMBDA ch : ch \notin {"NUL", "CR"})
        mapped == [i \in 1..Len(kept) |-> IF kept[i] = "LF" THEN "SP" ELSE kept[i]]
    IN \E a \in 1..(Len(mapped) + 1), b \in 0..Len(mapped) :
          /\ r = SubSeq(mapped, a, b)
          /\ \A i \in 1..Len(mapped) : (i < a \/ i > b) => mapped[i] \in Whitespace
          /\ r # <<>> => (r[1] \notin Whitespace /\ r[Len(r)] \notin Whitespace)

\* C19: the metadata an inserting add_employee_embedding stores has the keys
\* of the metadata given, none added and none dropped; a string value is
\* stored with NUL and CR removed, LF as one space, trimmed at both ends; a
\* number and any other value is stored as its string form
C19_MetadataSanitized ==
    [][(acall'.op = "add" /\ acall'.id \notin DOMAIN index /\ acall'.ret = <<TRUE>>) =>
         LET given == acall'.metadata
             stored == index'[acall'.id].metadata
         IN /\ DOMAIN stored = DOMAIN given
            /\ \A k \in DOMAIN given :
                  IF given[k].t = "str"
                  THEN SanitizedFrom(given[k].v, stored[k])
                  ELSE stored[k] = PyStr(given[k])
            /\ given = MetaMixed =>
                  stored = [full_name |-> <<"A", "SP", "B">>,
                            employer |-> <<"1", "7">>,
                            reputation_score |-> <<"8", ".", "5">>,
                            notes |-> <<"N", "o", "n", "e">>]]_vars

C19_Witness ==
    /\ acall.op = "add" /\ acall.ret = <<TRUE>> /\ acall.metadata = MetaMixed
    /\ acall.id \in DOMAIN index
    /\ index[acall.id].metadata.full_name = <<"A", "SP", "B">>
    /\ index[acall.id].metadata.employer = <<"1", "7">>

\* C20 as stated: the full_name 'Te', NUL, 'st', CR, LF is stored as 'Test '
C20_StoresTestWithSpace ==
    [][(acall'.op = "add" /\ acall'.id \notin DOMAIN index /\ acall'.ret = <<TRUE>>
          /\ acall'.metadata = MetaDirty) =>
         index'[acall'.id].metadata = [full_name |-> <<"T", "e", "s", "t", "SP">>]]_vars

\* C20 amended: the full_name 'Te', NUL, 'st', CR, LF is stored as 'Test':
\* the space the LF turns into is at the end and the trim removes it
C20_StoresTestTrimmed ==
    [][(acall'.op = "add" /\ acall'.id \notin DOMAIN index /\ acall'.ret = <<TRUE>>
          /\ acall'.metadata = MetaDirty) =>
         index'[acall'.id].metadata = [full_name |-> <<"T", "e", "s", "t">>]]_vars

C20_Witness ==
    /\ acall.op = "add" /\ acall.ret = <<TRUE>> /\ acall.metadata = MetaDirty
    /\ acall.id \in DOMAIN index
    /\ index[acall.id].metadata = [full_name |-> <<"T", "e", "s", "t">>]

\* C21 as stated: every metadata value in the collection is a string with no
\* NUL, CR or LF in it, whatever metadata add and update were given
C21_NoControlCharacters ==
    \A id \in DOMAIN index : \A k \in DOMAIN index[id].metadata :
        \A i \in 1..Len(index[id].metadata[k]) :
            index[id].metadata[k][i] \notin {"NUL", "CR", "LF"}

\* ---------------------------------------------------- verification claims
\* C10: a verification whose search gave a candidate with similarity >=
\* threshold whose identifier is in the Employee table ends in match, with
\* that row and the similarity attached and confidence High when similarity
\* >= 0.8, Medium otherwise; with threshold 0.65 a candidate at 0.90 gives
\* High, at 0.70 Medium, and at 0.50 no match (x200: 130, 180, 140, 100, 160)
C10_MatchDecision ==
    (vpc = "done" /\ vmatch # <<>>) =>
        LET m == vmatch[1] IN
        /\ (m.similarity >= threshold /\ m.id \in DOMAIN records) =>
               /\ vout.kind = "match"
               /\ vout.employee = <<records[m.id]>>
               /\ vout.similarity = <<m.similarity>>
               /\ vout.confidence = IF m.similarity >= 160 THEN "High" ELSE "Medium"
        /\ (threshold = 130 /\ m.similarity = 180 /\ m.id \in DOMAIN records) =>
               (vout.kind = "match" /\ vout.confidence = "High")
        /\ (threshold = 130 /\ m.similarity = 140 /\ m.id \in DOMAIN records) =>
               (vout.kind = "match" /\ vout.confidence = "Medium")
        /\ (threshold = 130 /\ m.similarity = 100) => vout.kind = "no_match"

C10_Witness ==
    /\ vpc = "done" /\ vmatch # <<>>
    /\ vmatch[1].similarity = threshold /\ threshold = 130
    /\ vout.kind = "match" /\ vout.confidence = "Medium"
    /\ vout.employee = <<records[vmatch[1].id]>>

VInLog(x) == \E i \in 1..Len(vlog) : vlog[i] = x

\* C11: a verification whose nearest candidate has similarity strictly below
\* the threshold ends in no-match with that similarity in the result, and the
\* Employee table is not queried in the request
C11_BelowThresholdNoMatch ==
    (vpc = "done" /\ vmatch # <<>> /\ vmatch[1].similarity < threshold) =>
        /\ vout.kind = "no_match"
        /\ vout.similarity = <<vmatch[1].similarity>>
        /\ vout.employee = <<>>
        /\ ~VInLog("get") /\ ~VInLog("get_missing")

C11_Witness ==
    /\ vpc = "done" /\ vmatch # <<>>
    /\ threshold = 170 /\ vmatch[1].similarity = 160
    /\ vmatch[1].id \in DOMAIN records
    /\ vout.kind = "no_match" /\ vout.similarity = <<160>>

\* C12: a verification whose candidate has similarity >= threshold while the
\* Employee table has no row with the candidate's identifier ends in the
\* record-missing error message, which is neither a match nor a no-match
C12_RecordMissingIsError ==
    (vpc = "done" /\ vmatch # <<>> /\ vmatch[1].similarity >= threshold
        /\ vmatch[1].id \notin DOMAIN records) =>
        /\ vout = ErrorResult("record_missing", RecordMissingMessage)
        /\ vout.kind \notin {"match", "no_match", "no_data"}
        /\ vout.msg # NoDataMessage
        /\ vlog[Len(vlog)] = "get_missing"

C12_Witness ==
    /\ vpc = "done" /\ vmatch # <<>>
    /\ vmatch[1].similarity >= threshold
    /\ vmatch[1].id \in DOMAIN index /\ vmatch[1].id \notin DOMAIN records
    /\ vout.kind = "record_missing"

\* C13: a verification whose search runs against an empty collection ends in
\* the no-match result with the 'no data' message and no similarity, and in
\* no error, whether the query answers with no ids or fails
C13_EmptyIndexNoData ==
    (vpc = "done" /\ DOMAIN index = {} /\ (VInLog("search") \/ VInLog("search_failed"))) =>
        /\ vmatch = <<>>
        /\ verr = <<>>
        /\ vout = [kind |-> "no_data", msg |-> NoDataMessage, employee |-> <<>>,
                   similarity |-> <<>>, confidence |-> None]

C13_Witness ==
    /\ vpc = "done" /\ DOMAIN index = {} /\ VInLog("search")
    /\ vlog = <<"temp_save", "extract", "search", "temp_delete">>
    /\ vout.kind = "no_data" /\ vout.similarity = <<>>

\* C14 as stated: a verification whose index query failed ends in an error
\* outcome, not in the no-match result an empty index gives
C14_QueryFailureSurfaced ==
    (vpc = "done" /\ VInLog("search_failed")) =>
        /\ vout.kind \in {"unexpected_error", "face_error", "record_missing"}
        /\ vout.msg # NoDataMessage

\* C15: in a verification whose extraction failed no step reads or writes
\* the collection, the client or the Employee table, the search and the
\* record lookup are never called, and the caller gets the extractor's
\* message unchanged
C15_ExtractionFailureTouchesNoStore ==
    [][VInLog("extract_failed")' =>
         /\ UNCHANGED <<records, index, client, collection>>
         /\ vmatch' = <<>> /\ vemb' = <<>>
         /\ vpc' = "done" =>
               /\ vlog' = <<"temp_save", "extract_failed", "temp_delete">>
               /\ vout' = ErrorResult("face_error", ExtractEmbedding(vimg').msg)]_vars

C15_Witness ==
    /\ vpc = "done" /\ VInLog("extract_failed")
    /\ DOMAIN index # {} /\ DOMAIN records # {}
    /\ vout.kind = "face_error" /\ vout.msg = ExtractEmbedding(NoFaceImage).msg

\* C16: when verify_employee is about to return, on any path, the temporary
\* file it saved is gone and no file is left under temp/; it was deleted once
C16_TempFileReleased ==
    /\ vpc = "idle" => tempFiles = {}
    /\ vpc = "done" =>
          /\ vtemp # <<>> /\ vtemp[1] \notin tempFiles
          /\ tempFiles = {}
          /\ Cardinality({i \in 1..Len(vlog) : vlog[i] = "temp_delete"}) = 1

C16_Witness ==
    /\ vpc = "done" /\ vtemp # <<>> /\ tempFiles = {}
    /\ vlog[2] = "extract_failed" /\ vlog[Len(vlog)] = "temp_delete"

\* C18: the confidence of a match is High iff similarity >= 0.8, whatever
\* the threshold: under every threshold setting that accepts the same
\* candidate the request renders the same confidence
C18_ConfidenceIndependentOfThreshold ==
    (vpc = "done" /\ vout.kind = "match") =>
        LET s == vmatch[1].similarity IN
        /\ vout.confidence = IF s >= 160 THEN "High" ELSE "Medium"
        /\ \A t \in Thresholds :
              s >= t => /\ Decide(vmatch, t, records).kind = "match"
                        /\ Decide(vmatch, t, records).confidence = vout.confidence

C18_Witness ==
    /\ vpc = "done" /\ vout.kind = "match"
    /\ threshold = 100 /\ vmatch[1].similarity = 140
    /\ vout.confidence = "Medium"
    /\ Cardinality({t \in Thresholds : vmatch[1].similarity >= t}) >= 2

\* ------------------------------------------------------ orchestrator claims
\* C23 as stated: every enrollment ends in a response (success or one of the
\* handled failures), no exception leaves add_employee or verify_employee,
\* and a verification in which a collaborator failed ends in an error outcome
C23_NoFailureSwallowedOrEscaping ==
    /\ \A c \in EnrollCalls :
          Done(c) => eout[c].kind \in {"success", "face_error", "store_failed", "unexpected_error"}
    /\ vpc = "done" =>
          /\ vout.kind \in {"match", "no_match", "no_data", "record_missing",
                            "face_error", "unexpected_error"}
          /\ (VInLog("extract_failed") \/ VInLog("search_failed")) =>
                vout.kind \in {"face_error", "unexpected_error"}

\* C24: at every state of interleaved enrollment and verification requests,
\* in-flight ones included, every embedding entry of the index has a record
\* with its id
C24_EmbeddingHasRecord == \A id \in DOMAIN index : id \in DOMAIN records

\* one enrollment has stored record and embedding, another has had its record
\* deleted as compensation, and a verification is in the middle of its steps
C24_Witness ==
    \E c, d \in EnrollCalls :
        /\ c # d
        /\ HasEmbedding(c) /\ HasRecord(c)
        /\ InLog(d, "delete") /\ ~HasRecord(d) /\ ~HasEmbedding(d)
        /\ vpc = "decide"

\* a step leaves the row and the index entry of id as they were
UntouchedAt(id) ==
    /\ id \in DOMAIN records' <=> id \in DOMAIN records
    /\ id \in DOMAIN records => records'[id] = records[id]
    /\ id \in DOMAIN index' <=> id \in DOMAIN index
    /\ id \in DOMAIN index => index'[id] = index[id]

VerifyRuns ==
    {<<"temp_save", "extract_failed", "temp_delete">>}
    \cup {<<"temp_save", "extract", s, "temp_delete">> : s \in {"search", "search_failed"}}
    \cup {<<"temp_save", "extract", "search", "temp_delete", g>> : g \in {"get", "get_missing"}}

IsPrefix(s, t) == Len(s) <= Len(t) /\ \A i \in 1..Len(s) : s[i] = t[i]

\* C26: a verification saves the upload, extracts, queries and decides in
\* that order, each of extraction, query and record lookup at most once and
\* never again after a failure; it has no outcome before it ends, and ends
\* with one of extraction failure, no data, match, no match or record
\* missing, which is then not changed
C26_VerifySequence ==
    [][/\ \E run \in VerifyRuns : IsPrefix(vlog', run)
       /\ vpc' \notin {"idle", "done"} => vout' = NoResult
       /\ vpc' = "done" =>
             /\ vlog' \in VerifyRuns
             /\ vout'.kind \in {"face_error", "no_data", "match", "no_match", "record_missing"}
             /\ vout'.kind = "face_error" <=> vlog'[2] = "extract_failed"
             /\ vout'.kind = "match" <=> vlog'[Len(vlog')] = "get"
             /\ vout'.kind = "record_missing" <=> vlog'[Len(vlog')] = "get_missing"
       /\ vpc = "done" => (vpc' = "idle" \/ vout' = vout)]_vars

C26_Witness ==
    /\ vpc = "done"
    /\ vout.kind = "record_missing"
    /\ vlog = <<"temp_save", "extract", "search", "temp_delete", "get_missing">>

\* the library call of an adapter operation went through: the collection
\* handle was there or could be set up, and the call itself did not raise
Completed(env) ==
    /\ env.fault # "op"
    /\ collection = None => env.fault # "collection"
    /\ (collection = None /\ client = None) => env.fault # "client"

\* C27: delete_employee_embedding and get_collection_stats never raise;
\* delete returns True when collection.delete went through, and the id is
\* then gone, and False on any failure, the index as it was; stats returns
\* 'healthy' with the number of entries when collection.count went through
\* and 'error' with total_embeddings 0 on any failure
C27_DeleteAndStatsNeverRaise ==
    [][/\ acall'.op = "delete" =>
             /\ ~acall'.raised
             /\ acall'.ret = <<Completed(acall'.env)>>
             /\ acall'.ret[1] => acall'.id \notin DOMAIN index'
             /\ ~acall'.ret[1] => index' = index
       /\ acall'.op = "stats" =>
             /\ ~acall'.raised
             /\ Completed(acall'.env) =>
                   /\ acall'.ret[1].status = "healthy"
                   /\ acall'.ret[1].total_embeddings = Cardinality(DOMAIN index)
             /\ ~Completed(acall'.env) =>
                   /\ acall'.ret[1].status = "error"
                   /\ acall'.ret[1].total_embeddings = 0]_vars

\* a stats call that counted a full collection
C27_Witness ==
    /\ acall.op = "stats"
    /\ acall.ret[1].status = "healthy"
    /\ acall.ret[1].total_embeddings = NumEnroll

\* C29: no step of a verification, whatever its outcome, changes the rows of
\* the record store or the entries of the collection
C29_VerifyChangesNoStore ==
    [][(vpc' # vpc \/ vlog' # vlog) => (records' = records /\ index' = index)]_vars

\* a verification has ended on a candidate whose record is gone, another
\* entry and its record still there
C29_Witness ==
    /\ vpc = "done" /\ vout.kind = "record_missing"
    /\ \E id \in DOMAIN index : id \in DOMAIN records
    /\ \E id \in DOMAIN index : id \notin DOMAIN records

\* ------------------------------------------------------------ handle claims
\* C28 as stated: since the last reset_client each handle has been assigned
\* at most once, whatever the threads inside _get_collection do; an
\* initialisation that raises leaves the handles as they were; reset_client
\* leaves both handles unset
C28_InitialisedAtMostOnce ==
    [][/\ inits'.client <= 1
       /\ inits'.collection <= 1
       /\ \A t \in Threads :
             (threads[t].pc # "idle" /\ threads'[t].ret = "raised") =>
                 (client' = client /\ collection' = collection)
       /\ threads' = threads => (client' = None /\ collection' = None)]_vars

\* --------------------------------------------------------- extractor claims
HasToken(msg, tok) == \E i \in 1..Len(msg) : msg[i] = tok

\* C22 as stated: extract_embedding returns the vector of the face exactly
\* when the image shows one face; it fails with a no-face message for no
\* face, a multiple-faces message for several, the file-not-found message for
\* a missing file whatever the detector would do; every failure is a
\* FaceRecognitionError; and the failures for no face, several faces and an
\* unreadable file carry different messages
C22_ExtractContract ==
    [][acall'.op = "extract" =>
         LET w == acall'.what
             i == acall'.img
             r == acall'.ret
         IN /\ r.ok <=> w = "one"
            /\ r.ok => r.vec = <<i.vec>>
            /\ ~r.ok => r.exc = "FaceRecognitionError"
            /\ w = "none" =>
                  \/ HasToken(r.msg, "No face detected in the image")
                  \/ HasToken(r.msg, "No face detected in the image. Please provide a clear face photo.")
            /\ w = "many" => HasToken(r.msg, "Multiple faces detected (")
            /\ w = "missing" => r = FaceError(<<"Image file not found: ", "path">>)
            /\ (acall.op = "extract" /\ acall.what # w
                  /\ {acall.what, w} \subseteq {"none", "many", "unreadable"}) =>
                    acall.ret.msg # r.msg]_vars

\* ----------------------------------------------------------- search claims
\* C17: for every distance d in [0,2] the collection hands back,
\* search_embedding reports similarity 1 - d/2: 1.0 at 0, 0.0 at 2, 0.5 at 1,
\* 0.85 at 0.3; the similarity is within [0,1], and of two results the one
\* with the larger distance has the strictly smaller similarity
C17_SimilarityMapping ==
    [][(acall'.op = "search" /\ acall'.ret # <<>>) =>
         LET r == acall'.ret[1] IN
         /\ r.similarity = 200 - r.distance
         /\ 0 <= r.similarity /\ r.similarity <= 200
         /\ r.distance = 0 => r.similarity = 200
         /\ r.distance = 200 => r.similarity = 0
         /\ r.distance = 100 => r.similarity = 100
         /\ r.distance = 30 => r.similarity = 170
         /\ (acall.op = "search" /\ acall.ret # <<>>
               /\ acall.ret[1].distance < r.distance) =>
                 acall.ret[1].similarity > r.similarity]_vars

C17_Witness ==
    /\ acall.op = "search" /\ acall.ret # <<>>
    /\ acall.ret[1].distance = 30 /\ acall.ret[1].similarity = 170

====
